---- MODULE Spec2Model ----
(***************************************************************************)
(* The itinerary generator of luno: generateTrip of                        *)
(* src/services/geminiService.ts, the one outbound request it makes, the   *)
(* sanitization of the parsed response and the fallback to MOCK_TRIP.      *)
(*                                                                         *)
(* JavaScript values are tagged records [t |-> type, v |-> payload], so    *)
(* that "absent", "null", "empty string", "array" and "something else" are *)
(* different values and  a || b  is computed as JavaScript computes it.    *)
(* Strings the code builds (ids) are built here with \o and ToString.      *)
(***************************************************************************)
EXTENDS Integers, Sequences, FiniteSets, TLC

VARIABLES
    now,        \* Date.now(): the wall clock, integer milliseconds
    MOCK_TRIP,  \* the module-level placeholder object (geminiService.ts:10)
    calls       \* the generateTrip invocations of the session, in call order:
                \* where each stands (pc), the requests it has handed to
                \* ai.models.generateContent (sent), what it has written
                \* with console.error (logged), when its delay timer is
                \* due (deadline), the Trip it resolved with (result), and
                \* the calls that had resolved when it was made (after)

VARIABLES
    screen,         \* App: the screen shown (App.tsx:49)
    preferences,    \* App: the preferences the onboarding fills (App.tsx:50)
    trip,           \* App: the Trip held, null before the first (App.tsx:58)
    selectedDayId,  \* App: the day opened from the home screen (App.tsx:59)
    showMoodModal,  \* App: whether the mood dialog is open (App.tsx:60)
    step,           \* OnboardingScreen: the step shown (App.tsx:328)
    processing,     \* PricingScreen: a payment is under way (App.tsx:903)
    timers          \* the timers set by the screens and not yet fired, in
                    \* the order they were set: when each is due, the screen
                    \* that set it (owner), what its callback was rendered
                    \* with (arg: the step of handleNext, the tier of a
                    \* payment), and whether the component that set it is
                    \* still the one mounted (live)

VARIABLES
    toast,          \* App: the toast shown, null when none (App.tsx:62)
    quizResultId,   \* App: the archetype the last quiz ended in (App.tsx:63)
    currentQ,       \* QuizScreen: the index of the question (App.tsx:740)
    finished,       \* QuizScreen: the result is shown (App.tsx:741)
    answers         \* QuizScreen: the options picked so far (App.tsx:742)

quizState == <<currentQ, finished, answers>>

app == <<screen, preferences, trip, selectedDayId, showMoodModal, step,
         processing, timers, toast, quizResultId, currentQ, finished,
         answers>>

generator == <<now, MOCK_TRIP, calls>>

vars == <<now, MOCK_TRIP, calls, screen, preferences, trip, selectedDayId,
          showMoodModal, step, processing, timers, toast, quizResultId,
          currentQ, finished, answers>>

-----------------------------------------------------------------------------
(* Bounds of the model.                                                    *)

MaxCalls == 2       \* generateTrip invocations in one session
MaxDays == 2        \* days in one response of the external service
MaxTicks == 2       \* steps of the clock

(* setTimeout(resolve, 1000) of the fallback path.                         *)
FallbackDelayMs == 1000

-----------------------------------------------------------------------------
(* JavaScript values.                                                      *)

Undef == [t |-> "undefined", v |-> ""]
Null == [t |-> "null", v |-> ""]
Str(s) == [t |-> "string", v |-> s]
Num(n) == [t |-> "number", v |-> n]
Arr(a) == [t |-> "array", v |-> a]
Obj(r) == [t |-> "object", v |-> r]
\* a non-empty string that is the JSON serialization of the value d
JsonText(d) == [t |-> "json", v |-> d]

\* ToBoolean: what  !x  and  x || y  test
Truthy(x) ==
    CASE x.t \in {"undefined", "null"} -> FALSE
      [] x.t = "string" -> x.v # ""
      [] x.t = "number" -> x.v # 0
      [] OTHER -> TRUE

\* a || b
Or(a, b) == IF Truthy(a) THEN a ELSE b

\* o.f : a TypeError on null and undefined, undefined on a primitive
CanRead(o) == o.t \notin {"undefined", "null"}
Get(o, f) == IF o.t = "object" THEN o.v[f] ELSE Undef

\* x.length === 0 : strings and arrays have a length, nothing else modelled has
LengthIsZero(x) ==
    CASE x.t = "array" -> Len(x.v) = 0
      [] x.t = "string" -> x.v = ""
      [] OTHER -> FALSE

\* JSON.parse(text): a value, or a SyntaxError
JSONparse(text) ==
    IF text.t = "json" THEN [ok |-> TRUE, value |-> text.v]
    ELSE [ok |-> FALSE, value |-> Undef]

RECURSIVE join(_)
\* vibes.join(', ')
join(s) ==
    IF Len(s) = 0 THEN ""
    ELSE IF Len(s) = 1 THEN s[1]
    ELSE s[1] \o ", " \o join(Tail(s))

-----------------------------------------------------------------------------
(* The placeholder.                                                        *)

Activity(id, title, description, time, type, location) ==
    [id |-> id, title |-> title, description |-> description,
     time |-> time, type |-> type, location |-> location]

MockTripLiteral ==
    [id |-> Str("mock-trip-1"),
     destination |-> Str("Kyoto, Japan"),
     days |-> <<
        [id |-> Str("d1"), date |-> Str("Day 1"),
         vibeLabel |-> Str("Calm Arrival"),
         summary |-> Str("Settling in with quiet temples and tea."),
         mainActivities |-> Arr(<<
            Activity("a1", "Nanzen-ji Temple",
                     "Walk through the massive gate and explore the aqueduct.",
                     "10:00 AM", "main", "Sakyo Ward"),
            Activity("a2", "Blue Bottle Coffee",
                     "Minimalist coffee in a renovated machiya.",
                     "2:00 PM", "rest", "Kyoto"),
            Activity("a3", "Philosopher's Path",
                     "A meditative walk along the canal.",
                     "4:00 PM", "main", "Higashiyama") >>),
         alternatives |-> Arr(<<
            Activity("alt1", "Eikan-do",
                     "Famous for autumn colors, very quiet.",
                     "Flexible", "main", "Sakyo") >>)],
        [id |-> Str("d2"), date |-> Str("Day 2"),
         vibeLabel |-> Str("Hidden Gems"),
         summary |-> Str("Avoiding the crowds in Northern Kyoto."),
         mainActivities |-> Arr(<<
            Activity("a4", "Daitoku-ji", "A complex of zen gardens.",
                     "09:00 AM", "main", "Kita Ward"),
            Activity("a5", "Sarasa Nishijin", "Lunch in an old bathhouse.",
                     "12:30 PM", "food", "Nishijin") >>),
         alternatives |-> Arr(<< >>)] >>]

NoTrip == [id |-> Undef, destination |-> Undef, days |-> << >>]

-----------------------------------------------------------------------------
(* Inputs: the preferences a caller passes.                                *)

Destinations == {"", "Lisbon, Portugal"}
VibeLists == {<< >>, <<"Calm", "Foodie">>}

\* the initial value of the fields generateTrip is handed with the rest
DefaultToggles ==
    [busyPlaces |-> TRUE, avoidNightlife |-> FALSE, dayOnly |-> FALSE,
     firstTime |-> TRUE]
DefaultOthers ==
    [toggles |-> DefaultToggles,
     character |-> [morning |-> "", navigation |-> ""],
     subscription |-> "FREE"]

\* the fields other screens set: as they start, and with the toggles, the
\* character answers or the subscription tier changed
OtherFields ==
    {DefaultOthers,
     [DefaultOthers EXCEPT !.toggles.dayOnly = TRUE],
     [DefaultOthers EXCEPT !.character =
        [morning |-> "Sunrise mission", navigation |-> "Planned route"]],
     [DefaultOthers EXCEPT !.subscription = "PRO"]}

Preferences(vibes, energy, destination, others) ==
    [vibes |-> vibes, energy |-> energy, destination |-> destination,
     toggles |-> others.toggles, character |-> others.character,
     subscription |-> others.subscription]

UserPreferences ==
    {Preferences(v, 50, d, o) :
        v \in VibeLists, d \in Destinations, o \in OtherFields}

\* the preferences of a session of several calls
SessionPreferences ==
    {p \in UserPreferences :
        /\ p.destination = "" <=> p.vibes = << >>
        /\ p = Preferences(p.vibes, p.energy, p.destination, DefaultOthers)}

-----------------------------------------------------------------------------
(* Inputs: what the external service may answer.                           *)

SampleMain ==
    Activity("m1", "Time Out Market", "Shared tables and petiscos.",
             "1:00 PM", "food", "Cais do Sodre")
SampleAlt ==
    Activity("x1", "Gulbenkian Garden", "Shade and quiet ponds.",
             "Flexible", "relax", "Avenidas Novas")

DayObj(id, summary, main, alt) ==
    Obj([id |-> id, date |-> Str("Day"), vibeLabel |-> Str("Slow Morning"),
         summary |-> summary, mainActivities |-> main, alternatives |-> alt])

FullLists == <<Arr(<<SampleMain>>), Arr(<<SampleAlt>>)>>

\* the elements of a days array. The id of a day is absent, empty, the
\* service's own, or one that looks like a local one; its activity lists are
\* arrays, absent, null, or values that are no arrays at all; an element may
\* be null instead of a day
ResponseDays ==
    { DayObj(Undef, Undef, Undef, Undef),
      DayObj(Str(""), Str("Miradouros."), Null, Arr(<< >>)),
      DayObj(Str("custom-1"), Str("Miradouros."), FullLists[1], FullLists[2]),
      DayObj(Str("day-1-0"), Str("Fado."), FullLists[1], FullLists[2]),
      DayObj(Str("custom-1"), Str("Fado."), Str("soon"), Num(1)),
      Null }

DaysUpTo(n) == UNION {[1..k -> ResponseDays] : k \in 1..n}

TripObj(id, destination, days) ==
    Obj([id |-> id, destination |-> destination, days |-> days])

ResponseIds == {Undef, Str("ext-1")}
ResponseDestinations == {Undef, Str(""), Str("Porto, Portugal")}

\* what JSON.parse may return
ParsedValues ==
    {Null, Num(7)}
    \cup {TripObj(i, d, days) :
            i \in ResponseIds, d \in ResponseDestinations,
            days \in {Undef, Null, Arr(<< >>), Str("soon")}}
    \cup {TripObj(i, d, Arr(days)) :
            i \in ResponseIds, d \in ResponseDestinations,
            days \in DaysUpTo(MaxDays)}

Rejects == [kind |-> "reject", text |-> Undef]
Resolves(text) == [kind |-> "resolve", text |-> text]
NoOutcome == [kind |-> "pending", text |-> Undef]

\* every way the outbound request may settle
Outcomes ==
    {Rejects, Resolves(Undef), Resolves(Str("")), Resolves(Str("<html>"))}
    \cup {Resolves(JsonText(d)) : d \in ParsedValues}

\* the answers of a session of several calls: a failure of the transport,
\* a failure of the validation, and an itinerary whose ids are all local
SessionOutcomes ==
    {Rejects,
     Resolves(JsonText(TripObj(Undef, Undef, Arr(<< >>)))),
     Resolves(JsonText(TripObj(Undef, Undef,
        Arr(<<DayObj(Undef, Undef, Undef, Undef)>>))))}

-----------------------------------------------------------------------------
(* generateTrip, up to the outbound request (geminiService.ts:44-113).     *)

\* a variant that tells the service the subscription tier
PromptWithTier(prefs) ==
    [place |-> Or(Str(prefs.destination), Str("a popular city")).v,
     vibes |-> join(prefs.vibes) \o " (" \o prefs.subscription \o ")",
     energy |-> ToString(prefs.energy) \o "%"]

Prompt(prefs) ==
    [place |-> Or(Str(prefs.destination), Str("a popular city")).v,
     vibes |-> join(prefs.vibes),
     energy |-> ToString(prefs.energy) \o "%"]

Request(prefs) ==
    [model |-> "gemini-2.5-flash", contents |-> Prompt(prefs),
     responseMimeType |-> "application/json", maxOutputTokens |-> 8192]

-----------------------------------------------------------------------------
(* generateTrip, the try block after the await (geminiService.ts:115-139). *)

Threw(error) == [threw |-> TRUE, error |-> error, trip |-> NoTrip]
Returned(value) == [threw |-> FALSE, error |-> "", trip |-> value]

\* if (!text)
NoText(text) == ~Truthy(text)

\* a variant that forgets the length test
NoDaysLengthUnchecked(data) == ~Truthy(Get(data, "days"))

\* if (!data.days || data.days.length === 0)
NoDays(data) == ~Truthy(Get(data, "days")) \/ LengthIsZero(Get(data, "days"))

\* a variant that asks the caller first
TripDestinationPrefsFirst(data, prefs) ==
    Or(Or(Str(prefs.destination), Get(data, "destination")),
       Str("Unknown Destination"))

\* a variant without the last resort
TripDestinationNoDefault(data, prefs) ==
    Or(Get(data, "destination"), Str(prefs.destination))

\* data.destination || prefs.destination || "Unknown Destination"
TripDestination(data, prefs) ==
    Or(Or(Get(data, "destination"), Str(prefs.destination)),
       Str("Unknown Destination"))

\* a variant that never keeps the id of the response
DayIdAlwaysLocal(day, index, t) ==
    Str("day-" \o ToString(index) \o "-" \o ToString(t))

\* day.id || `day-${index}-${Date.now()}`
DayId(day, index, t) ==
    Or(Get(day, "id"), Str("day-" \o ToString(index) \o "-" \o ToString(t)))

\* day.mainActivities || []
ListOrEmpty(list) == Or(list, Arr(<< >>))

\* a variant that builds the day from its id and its lists alone
SanitizeDayNoSpread(day, index, t) ==
    [id |-> DayId(day, index, t),
     date |-> Undef,
     vibeLabel |-> Undef,
     summary |-> Undef,
     mainActivities |-> ListOrEmpty(Get(day, "mainActivities")),
     alternatives |-> ListOrEmpty(Get(day, "alternatives"))]

\* the callback of data.days.map
SanitizeDay(day, index, t) ==
    [id |-> DayId(day, index, t),
     date |-> Get(day, "date"),
     vibeLabel |-> Get(day, "vibeLabel"),
     summary |-> Get(day, "summary"),
     mainActivities |-> ListOrEmpty(Get(day, "mainActivities")),
     alternatives |-> ListOrEmpty(Get(day, "alternatives"))]

\* a variant that keeps the id of the response when there is one
SanitizedTripIdKept(data, prefs, t) ==
    [id |-> Or(Get(data, "id"), Str(ToString(t))),
     destination |-> TripDestination(data, prefs),
     days |-> [i \in 1..Len(Get(data, "days").v) |->
                 SanitizeDay(Get(data, "days").v[i], i - 1, t)]]

\* the object literal of sanitizedTrip, built at clock value t
SanitizedTrip(data, prefs, t) ==
    [id |-> Str(ToString(t)),
     destination |-> TripDestination(data, prefs),
     days |-> [i \in 1..Len(Get(data, "days").v) |->
                 SanitizeDay(Get(data, "days").v[i], i - 1, t)]]

\* the try block from  const text = response.text  on: the Trip it returns
\* or the error it throws
HandleResponse(outcome, prefs, t) ==
    IF outcome.kind = "reject" THEN Threw("request rejected")
    ELSE IF NoText(outcome.text) THEN Threw("No data returned from API")
    ELSE IF ~JSONparse(outcome.text).ok THEN Threw("SyntaxError")
    ELSE LET data == JSONparse(outcome.text).value IN
        IF ~CanRead(data) THEN Threw("TypeError")
        ELSE IF NoDays(data) THEN Threw("Generated trip contains no days")
        ELSE IF Get(data, "days").t # "array" THEN Threw("TypeError")
        ELSE IF \E i \in 1..Len(Get(data, "days").v) :
                    ~CanRead(Get(data, "days").v[i])
             THEN Threw("TypeError")
        ELSE Returned(SanitizedTrip(data, prefs, t))

-----------------------------------------------------------------------------
(* generateTrip, the catch block (geminiService.ts:141-157).               *)

\* a variant that keeps the destination of the placeholder
FallbackDestinationKept(prefs, mock) == mock.destination

\* prefs.destination || MOCK_TRIP.destination
FallbackDestination(prefs, mock) == Or(Str(prefs.destination), mock.destination)

\* a variant that leaves the clock out of the id
FallbackDayIdNoClock(i, t) == Str("fallback-day-" \o ToString(i))

\* `fallback-day-${i}-${Date.now()}`
FallbackDayId(i, t) ==
    Str("fallback-day-" \o ToString(i) \o "-" \o ToString(t))

\* the object literal returned, built at clock value t
FallbackTrip(prefs, mock, t) ==
    [id |-> mock.id,
     destination |-> FallbackDestination(prefs, mock),
     days |-> [i \in 1..Len(mock.days) |->
                 [mock.days[i] EXCEPT !.id = FallbackDayId(i - 1, t)]]]

-----------------------------------------------------------------------------
(* The clock. A handler runs to completion at one clock value: the reads   *)
(* of Date.now() in one synchronous block all return now, and time passes  *)
(* between handlers, by single milliseconds or by a whole fallback delay.  *)

TickSteps == {1, FallbackDelayMs}

\* the steps the clock has taken to reach t
Ticks(t) == (t \div FallbackDelayMs) + (t % FallbackDelayMs)

-----------------------------------------------------------------------------
(* The steps of a session.                                                 *)

\* useState of App and of OnboardingScreen
InitialPreferences == Preferences(<< >>, 50, "", DefaultOthers)

Init ==
    /\ now = 0
    /\ MOCK_TRIP = MockTripLiteral
    /\ calls = << >>
    /\ screen = "SPLASH"
    /\ preferences = InitialPreferences
    /\ trip = Null
    /\ selectedDayId = Null
    /\ showMoodModal = FALSE
    /\ step = 0
    /\ processing = FALSE
    /\ timers = << >>
    /\ toast = Null
    /\ quizResultId = Null
    /\ currentQ = 0
    /\ finished = FALSE
    /\ answers = << >>

\* a caller invokes generateTrip(prefs): the prompt is built and the request
\* issued, and the call waits for the response. A caller makes up to limit
\* calls.
GenerateTrip(prefs, limit) ==
    /\ Len(calls) < limit
    /\ calls' = Append(calls,
          [prefs |-> prefs, pc |-> "awaitResponse",
           sent |-> <<Request(prefs)>>, outcome |-> NoOutcome,
           logged |-> << >>, deadline |-> 0, result |-> NoTrip,
           after |-> {i \in 1..Len(calls) : calls[i].pc = "resolved"}])
    /\ UNCHANGED <<now, MOCK_TRIP>>

\* a variant that issues the request a second time before it gives up
RequestSettlesRetrying(c, ways) ==
    /\ c \in 1..Len(calls)
    /\ calls[c].pc = "awaitResponse"
    /\ \E outcome \in ways :
        LET r == HandleResponse(outcome, calls[c].prefs, now)
        IN  IF r.threw /\ Len(calls[c].sent) < 2
            THEN calls' = [calls EXCEPT
                   ![c].sent = Append(@, Request(calls[c].prefs))]
            ELSE IF r.threw
            THEN calls' = [calls EXCEPT
                   ![c].pc = "awaitDelay",
                   ![c].outcome = outcome,
                   ![c].logged = Append(@,
                       [message |-> "Gemini API Error (falling back to mock)",
                        error |-> r.error]),
                   ![c].deadline = now + FallbackDelayMs]
            ELSE calls' = [calls EXCEPT
                   ![c].pc = "resolved",
                   ![c].outcome = outcome,
                   ![c].result = r.trip]
    /\ UNCHANGED <<now, MOCK_TRIP>>

\* the outbound request of call c settles in one of the given ways: the
\* call returns the sanitized Trip, or logs the error and starts the
\* fallback delay
RequestSettles(c, ways) ==
    /\ c \in 1..Len(calls)
    /\ calls[c].pc = "awaitResponse"
    /\ \E outcome \in ways :
        LET r == HandleResponse(outcome, calls[c].prefs, now)
        IN  IF r.threw
            THEN calls' = [calls EXCEPT
                   ![c].pc = "awaitDelay",
                   ![c].outcome = outcome,
                   ![c].logged = Append(@,
                       [message |-> "Gemini API Error (falling back to mock)",
                        error |-> r.error]),
                   ![c].deadline = now + FallbackDelayMs]
            ELSE calls' = [calls EXCEPT
                   ![c].pc = "resolved",
                   ![c].outcome = outcome,
                   ![c].result = r.trip]
    /\ UNCHANGED <<now, MOCK_TRIP>>

\* a variant that writes the destination and the ids into MOCK_TRIP itself
\* and returns it
TimerFiresInPlace(c) ==
    /\ c \in 1..Len(calls)
    /\ calls[c].pc = "awaitDelay"
    /\ now >= calls[c].deadline
    /\ MOCK_TRIP' = FallbackTrip(calls[c].prefs, MOCK_TRIP, now)
    /\ calls' = [calls EXCEPT ![c].pc = "resolved", ![c].result = MOCK_TRIP']
    /\ now' = now

\* a variant whose timer callback never resolves the promise
TimerFiresAbandons(c) ==
    /\ c \in 1..Len(calls)
    /\ calls[c].pc = "awaitDelay"
    /\ now >= calls[c].deadline
    /\ calls' = [calls EXCEPT ![c].pc = "abandoned"]
    /\ UNCHANGED <<now, MOCK_TRIP>>

\* a variant that builds the ids from the clock read when the request failed
TimerFiresEarlyIds(c) ==
    /\ c \in 1..Len(calls)
    /\ calls[c].pc = "awaitDelay"
    /\ now >= calls[c].deadline
    /\ calls' = [calls EXCEPT
          ![c].pc = "resolved",
          ![c].result = FallbackTrip(calls[c].prefs, MOCK_TRIP,
                                     calls[c].deadline - FallbackDelayMs)]
    /\ UNCHANGED <<now, MOCK_TRIP>>

\* the timer of the fallback delay of call c fires: the call returns the
\* placeholder with fresh day ids
TimerFires(c) ==
    /\ c \in 1..Len(calls)
    /\ calls[c].pc = "awaitDelay"
    /\ now >= calls[c].deadline
    /\ calls' = [calls EXCEPT
          ![c].pc = "resolved",
          ![c].result = FallbackTrip(calls[c].prefs, MOCK_TRIP, now)]
    /\ UNCHANGED <<now, MOCK_TRIP>>

\* time passes
Tick(d) ==
    /\ d \in TickSteps
    /\ Ticks(now) < MaxTicks
    /\ now' = now + d
    /\ UNCHANGED <<MOCK_TRIP, calls>>

\* a session of up to MaxCalls calls, which may overlap, made by a caller
\* other than the App
Next ==
    \/ \E prefs \in SessionPreferences :
          GenerateTrip(prefs, MaxCalls) /\ UNCHANGED app
    \/ \E c \in 1..MaxCalls :
          RequestSettles(c, SessionOutcomes) /\ UNCHANGED app
    \/ \E c \in 1..MaxCalls : TimerFires(c) /\ UNCHANGED app
    \/ \E d \in TickSteps : Tick(d) /\ UNCHANGED app

Spec == Init /\ [][Next]_vars

\* one call, answered in every way the service may answer
NextOneCall ==
    \/ \E prefs \in UserPreferences : GenerateTrip(prefs, 1) /\ UNCHANGED app
    \/ RequestSettles(1, Outcomes) /\ UNCHANGED app
    \/ TimerFires(1) /\ UNCHANGED app
    \/ \E d \in TickSteps : Tick(d) /\ UNCHANGED app

SpecOneCall == Init /\ [][NextOneCall]_vars

\* time passes until the fallback delay of call c is over
DelayElapses(c) ==
    /\ c \in 1..Len(calls)
    /\ calls[c].pc = "awaitDelay"
    /\ now < calls[c].deadline
    /\ now' = calls[c].deadline
    /\ UNCHANGED <<MOCK_TRIP, calls>>

\* a session whose requests settle in the end and whose timers fire in the
\* end: the event loop runs a callback that is due. Calls are made and
\* requests settle at the moments a delay is over.
NextFair ==
    \/ \E prefs \in SessionPreferences :
          GenerateTrip(prefs, MaxCalls) /\ UNCHANGED app
    \/ \E c \in 1..MaxCalls :
          RequestSettles(c, SessionOutcomes) /\ UNCHANGED app
    \/ \E c \in 1..MaxCalls : TimerFires(c) /\ UNCHANGED app
    \/ \E c \in 1..MaxCalls : DelayElapses(c) /\ UNCHANGED app

SpecFair ==
    /\ Init
    /\ [][NextFair]_vars
    /\ \A c \in 1..MaxCalls :
          /\ WF_vars(RequestSettles(c, SessionOutcomes) /\ UNCHANGED app)
          /\ WF_vars(DelayElapses(c) /\ UNCHANGED app)
          /\ WF_vars(TimerFires(c) /\ UNCHANGED app)

-----------------------------------------------------------------------------
(* App: handleGenerateTrip (App.tsx:67-72) and the calls it makes. The     *)
(* handler awaits generateTrip, so what follows the await runs in the same *)
(* task as the step that resolves the call.                                *)

\* a variant that stores the Trip of the latest call only
HandlerResumesLatestOnly(c) ==
    IF c = Len(calls)
    THEN trip' = Obj(calls'[c].result) /\ screen' = "PRESENTING"
    ELSE UNCHANGED <<trip, screen>>

\* a variant that goes to the home screen at once
HandlerResumesSkipsPresenting(c) ==
    trip' = Obj(calls'[c].result) /\ screen' = "HOME"

\* a variant that shows the presentation without storing the Trip
HandlerResumesTripNotStored(c) ==
    trip' = trip /\ screen' = "PRESENTING"

\* setTrip(generatedTrip); setScreen(Screen.PRESENTING)
HandlerResumes(c) ==
    trip' = Obj(calls'[c].result) /\ screen' = "PRESENTING"

\* a variant that leaves the screen as it is while the call is pending
HandleGenerateTripNoLoading ==
    /\ GenerateTrip(preferences, MaxCalls)
    /\ UNCHANGED <<screen, preferences, trip, selectedDayId, showMoodModal,
                   step, toast, quizResultId, quizState>>

\* setScreen(Screen.GENERATING); generateTrip(preferences), up to the await
HandleGenerateTrip ==
    /\ screen' = "GENERATING"
    /\ GenerateTrip(preferences, MaxCalls)
    /\ UNCHANGED <<preferences, trip, selectedDayId, showMoodModal, step,
                   toast, quizResultId, quizState>>

\* the request of call c settles in one of the given ways; when that
\* resolves the call, the handler that awaits it goes on
ResponseArrives(c, ways) ==
    /\ RequestSettles(c, ways)
    /\ IF calls'[c].pc = "resolved" THEN HandlerResumes(c)
       ELSE UNCHANGED <<trip, screen>>
    /\ UNCHANGED <<preferences, selectedDayId, showMoodModal, step,
                   processing, timers, toast, quizResultId, quizState>>

\* the fallback delay of call c is over: the call resolves and the handler
\* that awaits it goes on
FallbackArrives(c) ==
    /\ TimerFires(c)
    /\ HandlerResumes(c)
    /\ UNCHANGED <<preferences, selectedDayId, showMoodModal, step,
                   processing, timers, toast, quizResultId, quizState>>

\* the handler alone: it may be invoked again while a call is pending
NextHandler ==
    \/ HandleGenerateTrip /\ UNCHANGED <<processing, timers>>
    \/ \E c \in 1..MaxCalls : ResponseArrives(c, SessionOutcomes)
    \/ \E c \in 1..MaxCalls : FallbackArrives(c)
    \/ \E d \in TickSteps : Tick(d) /\ UNCHANGED app

SpecHandler == Init /\ [][NextHandler]_vars

-----------------------------------------------------------------------------
(* App: the screens (App.tsx:80-150). One action per control. Local state  *)
(* no handler modelled here reads is left out: the page of the walkthrough, *)
(* the form of the sign-in screen, the safety dialog and the billing      *)
(* cycle.                                                                  *)

MaxTimers == 2      \* timers pending at one time
MaxClock == 3000    \* the clock value up to which timers are waited for

AutoAdvanceMs == 150
PaymentDelayMs == 1500

Vibes == {"Calm", "Social", "Adventure", "Chill", "Reset", "Culture"}
MorningOptions == {"Slow coffee & read", "Sunrise mission", "Sleep in late"}
NavigationOptions == {"Wander aimlessly", "Planned route", "Local transport pro"}
Tiers == {"FREE", "PLUS", "PRO"}
NavItems == {"HOME", "MAP", "INSIGHTS", "PROFILE"}

\* what the user of a whole session picks from
SessionVibes == {"Calm"}
SessionMornings == {"Sunrise mission"}
SessionNavigations == {"Planned route"}
SessionEnergies == {80}

\* the screens whose component keeps local state that is modelled
Stateful == {"ONBOARDING", "PRICING", "QUIZ"}

\* setScreen(s): a component that is mounted starts from its useState
\* values, and the timers of an earlier instance of it are no longer its
Mounted(s) == s # screen /\ s \in Stateful

StaleAfter(s, queue) ==
    [k \in 1..Len(queue) |->
        IF Mounted(s) /\ queue[k].owner = s
        THEN [queue[k] EXCEPT !.live = FALSE] ELSE queue[k]]

SetScreen(s) ==
    /\ screen' = s
    /\ step' = IF Mounted(s) /\ s = "ONBOARDING" THEN 0 ELSE step
    /\ processing' = IF Mounted(s) /\ s = "PRICING" THEN FALSE ELSE processing
    /\ timers' = StaleAfter(s, timers)
    /\ currentQ' = IF Mounted(s) /\ s = "QUIZ" THEN 0 ELSE currentQ
    /\ finished' = IF Mounted(s) /\ s = "QUIZ" THEN FALSE ELSE finished
    /\ answers' = IF Mounted(s) /\ s = "QUIZ" THEN << >> ELSE answers

\* a control that does nothing but setScreen(s)
GoTo(s) ==
    /\ SetScreen(s)
    /\ UNCHANGED <<generator, toast, quizResultId,
                   preferences, trip, selectedDayId, showMoodModal>>

\* setTimeout(callback, delay)
Timer(delay, owner, arg) ==
    [due |-> now + delay, owner |-> owner, arg |-> arg, live |-> TRUE]

\* SplashScreen onStart, WalkthroughScreen onComplete, AuthScreen onComplete
ClickStart == screen = "SPLASH" /\ GoTo("WALKTHROUGH")
ClickJoin == screen = "WALKTHROUGH" /\ GoTo("AUTH")
ClickSignIn == screen = "AUTH" /\ GoTo("ONBOARDING")

-----------------------------------------------------------------------------
(* OnboardingScreen (App.tsx:327-491).                                     *)

Includes(list, x) == \E k \in 1..Len(list) : list[k] = x
\* current.filter(v => v !== vibe)
Without(list, x) == SelectSeq(list, LAMBDA v : v # x)

\* a variant that selects without a limit
ToggledUnlimited(current, vibe) ==
    IF Includes(current, vibe) THEN Without(current, vibe)
    ELSE Append(current, vibe)

\* the vibes toggleVibe(vibe) sets
Toggled(current, vibe) ==
    IF Includes(current, vibe) THEN Without(current, vibe)
    ELSE IF Len(current) < 3 THEN Append(current, vibe)
    ELSE current

\* a vibe button of step 0
ToggleVibe(vibe) ==
    /\ screen = "ONBOARDING"
    /\ step = 0
    /\ vibe \in Vibes
    /\ preferences' = [preferences EXCEPT !.vibes = Toggled(@, vibe)]
    /\ UNCHANGED <<generator, toast, quizResultId, quizState,
                   screen, trip, selectedDayId, showMoodModal,
                   step, processing, timers>>

\* the destination input of step 0
TypeDestination(text) ==
    /\ screen = "ONBOARDING"
    /\ step = 0
    /\ preferences' = [preferences EXCEPT !.destination = text]
    /\ UNCHANGED <<generator, toast, quizResultId, quizState,
                   screen, trip, selectedDayId, showMoodModal,
                   step, processing, timers>>

\* handleNext as rendered with step s, in a component that is mounted or
\* not (setStep of a component no longer mounted does nothing). The timers
\* and processing are left to the caller.
HandleNext(s, mounted) ==
    IF s < 3
    THEN /\ step' = IF mounted THEN s + 1 ELSE step
         /\ UNCHANGED <<generator, toast, quizResultId, quizState,
                   screen, preferences, trip, selectedDayId,
                        showMoodModal>>
    ELSE HandleGenerateTrip

\* a variant that looks at the vibes only
NextDisabledVibesOnly ==
    step = 0 /\ Len(preferences.vibes) = 0

\* disabled={step === 0 && (!preferences.vibes.length || !preferences.destination)}
NextDisabled ==
    step = 0 /\ (Len(preferences.vibes) = 0 \/ preferences.destination = "")

\* the button "Next" of step 0 and "Create my LUNO" of step 3
ClickNext ==
    /\ screen = "ONBOARDING"
    /\ step \in {0, 3}
    /\ ~NextDisabled
    /\ HandleNext(step, TRUE)
    /\ UNCHANGED <<processing, timers>>

\* an option of step 1 (morning) or step 2 (navigation): setCharacterAnswer
SetCharacterAnswer(key, val) ==
    /\ screen = "ONBOARDING"
    /\ \/ step = 1 /\ key = "morning" /\ val \in MorningOptions
       \/ step = 2 /\ key = "navigation" /\ val \in NavigationOptions
    /\ Len(timers) < MaxTimers
    /\ preferences' = [preferences EXCEPT !.character[key] = val]
    /\ timers' = Append(timers, Timer(AutoAdvanceMs, "ONBOARDING", step))
    /\ UNCHANGED <<generator, toast, quizResultId, quizState,
                   screen, trip, selectedDayId, showMoodModal,
                   step, processing>>

\* the energy slider of step 3
SetEnergy(value) ==
    /\ screen = "ONBOARDING"
    /\ step = 3
    /\ preferences' = [preferences EXCEPT !.energy = value]
    /\ UNCHANGED <<generator, toast, quizResultId, quizState,
                   screen, trip, selectedDayId, showMoodModal,
                   step, processing, timers>>

-----------------------------------------------------------------------------
(* The screens after the generation (App.tsx:92-107, 134-139).             *)

\* !trip || !trip.days || trip.days.length === 0
NoTripToShow == ~Truthy(trip) \/ Len(trip.v.days) = 0

\* "Try Again" of the failure view of PresentingScreen
ClickTryAgain ==
    /\ screen = "PRESENTING"
    /\ NoTripToShow
    /\ HandleGenerateTrip
    /\ UNCHANGED <<processing, timers>>

\* "Start Journey", or "Continue anyway (Mock)" of the failure view
ClickContinue == screen = "PRESENTING" /\ GoTo("HOME")

\* a variant that offers "Plan a Trip" on every view of HomeScreen
ClickPlanTripAlways == screen = "HOME" /\ GoTo("ONBOARDING")

\* "Plan a Trip" of the failure view of HomeScreen
ClickPlanTrip == screen = "HOME" /\ NoTripToShow /\ GoTo("ONBOARDING")

\* onSelectDay(id): setSelectedDayId(id); setScreen(Screen.DAY_DETAIL)
OnSelectDay(id) ==
    /\ selectedDayId' = id
    /\ SetScreen("DAY_DETAIL")
    /\ UNCHANGED <<generator, toast, quizResultId,
                   preferences, trip, showMoodModal>>

\* the card of today (i = 1) or a row of the list of the days after
SelectDay(i) ==
    /\ screen = "HOME"
    /\ ~NoTripToShow
    /\ i \in 1..Len(trip.v.days)
    /\ OnSelectDay(trip.v.days[i].id)

\* the refresh control inside the card of today: it has no handler of its
\* own, the click reaches the card
ClickRefresh ==
    /\ screen = "HOME"
    /\ ~NoTripToShow
    /\ OnSelectDay(trip.v.days[1].id)

\* onOpenMood: setShowMoodModal(true)
OnOpenMood ==
    /\ showMoodModal' = TRUE
    /\ UNCHANGED <<generator, toast, quizResultId, quizState,
                   screen, preferences, trip, selectedDayId, step,
                   processing, timers>>

\* "Change Mood" of the card of today
ClickChangeMood == screen = "HOME" /\ ~NoTripToShow /\ OnOpenMood

\* "Discover your Style" of HomeScreen, "Retake" and "Start" of ProfileScreen
ClickStartQuiz ==
    /\ \/ screen = "HOME" /\ ~NoTripToShow
       \/ screen = "PROFILE"
    /\ GoTo("QUIZ")

\* trip?.days?.find(d => d.id === selectedDayId)
DayShown ==
    IF ~Truthy(trip) THEN {}
    ELSE {i \in 1..Len(trip.v.days) :
            /\ trip.v.days[i].id = selectedDayId
            /\ \A j \in 1..(i - 1) : trip.v.days[j].id # selectedDayId}

\* !subscription || subscription === 'FREE'
IsFree == preferences.subscription \in {"", "FREE"}

\* the back arrow of DayDetailScreen, QuizScreen and PricingScreen
ClickBack == screen \in {"DAY_DETAIL", "QUIZ", "PRICING"} /\ GoTo("HOME")

\* "Unlock Alternatives", "Unlock Analytics", the status card of the profile
ClickUpgrade ==
    /\ \/ screen = "DAY_DETAIL" /\ DayShown # {} /\ IsFree
       \/ screen = "INSIGHTS" /\ preferences.subscription # "PRO"
       \/ screen = "PROFILE"
    /\ GoTo("PRICING")

\* "I feel different (Re-plan)" of DayDetailScreen
ClickRePlan ==
    /\ screen = "DAY_DETAIL"
    /\ DayShown # {}
    /\ ~IsFree
    /\ OnOpenMood

\* "Update Plan" of MoodModal, and its backdrop: onClose
ClickUpdatePlan ==
    /\ showMoodModal
    /\ showMoodModal' = FALSE
    /\ UNCHANGED <<generator, toast, quizResultId, quizState,
                   screen, preferences, trip, selectedDayId, step,
                   processing, timers>>

\* an item of BottomNav
Navigate(item) ==
    /\ screen \in NavItems
    /\ item \in NavItems
    /\ GoTo(item)

\* handleBuy(tier) and restorePurchases, up to the await
StartPayment(tier) ==
    /\ Len(timers) < MaxTimers
    /\ processing' = TRUE
    /\ timers' = Append(timers, Timer(PaymentDelayMs, "PRICING", tier))
    /\ UNCHANGED <<generator, toast, quizResultId, quizState,
                   screen, preferences, trip, selectedDayId,
                   showMoodModal, step>>

\* the button of a tier: disabled={isCurrent || processing}
ClickBuy(tier) ==
    /\ screen = "PRICING"
    /\ tier \in Tiers
    /\ ~(preferences.subscription = tier \/ processing)
    /\ StartPayment(tier)

\* "Restore Purchases"
ClickRestore == screen = "PRICING" /\ StartPayment("PLUS")

\* the buttons of PresentingScreen, of the view it shows
ClickPresenting(button) ==
    CASE button = "Try Again" -> ClickTryAgain
      [] button = "Continue" -> ClickContinue

\* the controls of HomeScreen besides the days and the quiz, of the view it
\* shows
ClickHome(control) ==
    CASE control = "Plan a Trip" -> ClickPlanTrip
      [] control = "Change Mood" -> ClickChangeMood
      [] control = "Refresh" -> ClickRefresh

-----------------------------------------------------------------------------
(* QuizScreen (App.tsx:739-899). The effect that hands the result to the   *)
(* App runs with the render a click brings about, before the next click.   *)

Questions ==
    <<"Ideally, your morning starts with...", "Your social battery is...",
      "A perfect souvenir is...">>
QUIZ_TYPES == <<"zen", "adrenaline", "local", "deep">>
Options == 0..3

\* counts after currentAnswers.forEach: an answer out of range counts as 0
Counts(list) ==
    [i \in 0..3 |->
        Cardinality({k \in 1..Len(list) :
                        IF list[k] >= 0 /\ list[k] < 4 THEN list[k] = i
                        ELSE i = 0})]

\* a variant of the loop body that lets a later index win a tie
LoopStepTiesToLast(acc, i, counts) ==
    IF counts[i] >= acc.maxVal THEN [maxIdx |-> i, maxVal |-> counts[i]]
    ELSE acc

\* the body of for (i = 0; i < 4; i++)
LoopStep(acc, i, counts) ==
    IF counts[i] > acc.maxVal THEN [maxIdx |-> i, maxVal |-> counts[i]]
    ELSE acc

\* maxIdx after the loop
MaxIdx(counts) ==
    LoopStep(LoopStep(LoopStep(LoopStep([maxIdx |-> 0, maxVal |-> -1],
        0, counts), 1, counts), 2, counts), 3, counts).maxIdx

\* result.id: QUIZ_TYPES[maxIdx] || QUIZ_TYPES[0]
Result(list) == QUIZ_TYPES[MaxIdx(Counts(list)) + 1]

\* an option of the question shown: handleAnswer(index), and the effect
\* that calls onFinish(result.id) once finished
HandleAnswer(index) ==
    /\ screen = "QUIZ"
    /\ ~finished
    /\ index \in Options
    /\ answers' = Append(answers, index)
    /\ IF currentQ < Len(Questions) - 1
       THEN currentQ' = currentQ + 1 /\ finished' = finished
       ELSE finished' = TRUE /\ currentQ' = currentQ
    /\ quizResultId' = IF finished' THEN Str(Result(answers'))
                       ELSE quizResultId
    /\ UNCHANGED <<generator, toast, screen, preferences, trip,
                   selectedDayId, showMoodModal, step, processing, timers>>

\* "Retake Analysis" of the result view
ClickRetake ==
    /\ screen = "QUIZ"
    /\ finished
    /\ finished' = FALSE
    /\ currentQ' = 0
    /\ answers' = << >>
    /\ UNCHANGED <<generator, toast, quizResultId, screen, preferences, trip,
                   selectedDayId, showMoodModal, step, processing, timers>>

-----------------------------------------------------------------------------
(* Timers and time in the App. The timers of one window fire in the order  *)
(* they are due, and in the order they were set when due together.         *)

Remove(queue, k) == SubSeq(queue, 1, k - 1) \o SubSeq(queue, k + 1, Len(queue))

FiresNext(k) ==
    /\ k \in 1..Len(timers)
    /\ timers[k].due <= now
    /\ \A j \in 1..Len(timers) :
          \/ timers[j].due > timers[k].due
          \/ timers[j].due = timers[k].due /\ j >= k

\* the timer of setCharacterAnswer fires: handleNext as it was rendered
AutoAdvance(k) ==
    /\ FiresNext(k)
    /\ timers[k].owner = "ONBOARDING"
    /\ HandleNext(timers[k].arg, timers[k].live /\ screen = "ONBOARDING")
    /\ timers' = Remove(timers, k)
    /\ UNCHANGED processing

\* handleSubscriptionUpdate(tier)
HandleSubscriptionUpdate(tier) ==
    /\ preferences' = [preferences EXCEPT !.subscription = tier]
    /\ toast' = Obj([message |-> "Welcome to LUNO+ " \o tier,
                     type |-> "success"])
    /\ screen' = "HOME"

\* a variant that drops the purchase of a pricing screen that was left
PaymentCompletesMountedOnly(k) ==
    /\ FiresNext(k)
    /\ timers[k].owner = "PRICING"
    /\ timers' = Remove(timers, k)
    /\ IF timers[k].live /\ screen = "PRICING"
       THEN /\ processing' = FALSE
            /\ HandleSubscriptionUpdate(timers[k].arg)
       ELSE UNCHANGED <<processing, preferences, toast, screen>>
    /\ UNCHANGED <<generator, quizResultId, quizState,
                   trip, selectedDayId, showMoodModal, step>>

\* the timer of a payment fires: setProcessing(false); onPurchase(tier)
PaymentCompletes(k) ==
    /\ FiresNext(k)
    /\ timers[k].owner = "PRICING"
    /\ processing' = IF timers[k].live /\ screen = "PRICING" THEN FALSE
                     ELSE processing
    /\ HandleSubscriptionUpdate(timers[k].arg)
    /\ timers' = Remove(timers, k)
    /\ UNCHANGED <<generator, quizResultId, quizState,
                   trip, selectedDayId, showMoodModal, step>>

\* the timer of Toast fires: onClose, setToast(null). The effect of Toast
\* sets its 3000 ms timer anew at every render of App, so the moment it
\* fires is left open
ToastCloses ==
    /\ toast # Null
    /\ toast' = Null
    /\ UNCHANGED <<generator, quizResultId, quizState, screen, preferences,
                   trip, selectedDayId, showMoodModal, step, processing,
                   timers>>

\* when the timers set and not yet fired are due
Dues ==
    {timers[k].due : k \in 1..Len(timers)}
    \cup {calls[c].deadline : c \in {d \in 1..Len(calls) : calls[d].pc = "awaitDelay"}}

\* time passes until the next timer is due
TimePasses ==
    /\ \E due \in Dues :
          /\ due > now
          /\ due <= MaxClock
          /\ \A other \in Dues : other > now => due <= other
          /\ now' = due
    /\ UNCHANGED <<MOCK_TRIP, calls>>
    /\ UNCHANGED app

\* the App from the splash screen on, with a user who picks one vibe and
\* acts at the moments a timer is due
NextApp ==
    \/ ClickStart
    \/ ClickJoin
    \/ ClickSignIn
    \/ \E vibe \in SessionVibes : ToggleVibe(vibe)
    \/ \E text \in Destinations : TypeDestination(text)
    \/ ClickNext
    \/ \E val \in SessionMornings : SetCharacterAnswer("morning", val)
    \/ \E val \in SessionNavigations : SetCharacterAnswer("navigation", val)
    \/ \E value \in SessionEnergies : SetEnergy(value)
    \/ \E k \in 1..MaxTimers : AutoAdvance(k)
    \/ \E c \in 1..MaxCalls : ResponseArrives(c, SessionOutcomes)
    \/ \E c \in 1..MaxCalls : FallbackArrives(c)
    \/ \E button \in {"Try Again", "Continue"} : ClickPresenting(button)
    \/ \E control \in {"Plan a Trip", "Change Mood", "Refresh"} :
          ClickHome(control)
    \/ \E i \in 1..MaxDays : SelectDay(i)
    \/ ClickStartQuiz
    \/ ClickBack
    \/ ClickUpgrade
    \/ ClickRePlan
    \/ ClickUpdatePlan
    \/ \E item \in NavItems : Navigate(item)
    \/ \E tier \in Tiers : ClickBuy(tier)
    \/ ClickRestore
    \/ \E k \in 1..MaxTimers : PaymentCompletes(k)
    \/ ToastCloses
    \/ TimePasses

SpecApp == Init /\ [][NextApp]_vars

\* the onboarding alone, with a user who picks any vibe
NextOnboarding ==
    \/ ClickStart
    \/ ClickJoin
    \/ ClickSignIn
    \/ \E vibe \in Vibes : ToggleVibe(vibe)
    \/ \E text \in Destinations : TypeDestination(text)
    \/ ClickNext
    \/ \E val \in SessionMornings : SetCharacterAnswer("morning", val)
    \/ \E val \in SessionNavigations : SetCharacterAnswer("navigation", val)
    \/ \E value \in SessionEnergies : SetEnergy(value)
    \/ \E k \in 1..MaxTimers : AutoAdvance(k)
    \/ TimePasses
    \/ \E d \in TickSteps : Tick(d) /\ UNCHANGED app

SpecOnboarding == Init /\ [][NextOnboarding]_vars

\* the answers of a session whose trips have MaxDays days: each day carries
\* no id, an id of the service, or an id that looks like a local one
DayOutcomes ==
    {Rejects}
    \cup {Resolves(JsonText(TripObj(Undef, Undef, Arr(days)))) :
            days \in [1..MaxDays ->
                        {DayObj(Undef, Undef, Undef, Undef),
                         DayObj(Str("custom-1"), Str("Miradouros."),
                                FullLists[1], FullLists[2]),
                         DayObj(Str("custom-1"), Str("Fado."), Str("soon"),
                                Num(1)),
                         DayObj(Str("day-1-0"), Str("Fado."), FullLists[1],
                                FullLists[2])}]}

\* the way to the home screen and the days opened from it, with any of
\* those answers
NextDays ==
    \/ ClickStart
    \/ ClickJoin
    \/ ClickSignIn
    \/ \E vibe \in SessionVibes : ToggleVibe(vibe)
    \/ \E text \in Destinations : TypeDestination(text)
    \/ ClickNext
    \/ \E val \in SessionMornings : SetCharacterAnswer("morning", val)
    \/ \E val \in SessionNavigations : SetCharacterAnswer("navigation", val)
    \/ \E k \in 1..MaxTimers : AutoAdvance(k)
    \/ \E c \in 1..MaxCalls : ResponseArrives(c, DayOutcomes)
    \/ \E c \in 1..MaxCalls : FallbackArrives(c)
    \/ ClickContinue
    \/ \E i \in 1..MaxDays : SelectDay(i)
    \/ ClickBack
    \/ TimePasses

SpecDays == Init /\ [][NextDays]_vars

\* the way to the quiz, and the quiz taken any number of times
NextQuiz ==
    \/ ClickStart
    \/ ClickJoin
    \/ ClickSignIn
    \/ \E vibe \in SessionVibes : ToggleVibe(vibe)
    \/ \E text \in Destinations : TypeDestination(text)
    \/ ClickNext
    \/ \E val \in SessionMornings : SetCharacterAnswer("morning", val)
    \/ \E val \in SessionNavigations : SetCharacterAnswer("navigation", val)
    \/ \E k \in 1..MaxTimers : AutoAdvance(k)
    \/ \E c \in 1..MaxCalls : ResponseArrives(c, {Rejects})
    \/ \E c \in 1..MaxCalls : FallbackArrives(c)
    \/ ClickContinue
    \/ ClickStartQuiz
    \/ \E index \in Options : HandleAnswer(index)
    \/ ClickRetake
    \/ ClickBack
    \/ TimePasses

SpecQuiz == Init /\ [][NextQuiz]_vars

-----------------------------------------------------------------------------
(* Object identity. A Trip is a tree of objects, and two Trips may refer   *)
(* to one array. The try block returns the objects JSON.parse made for the *)
(* call, or a new [] ; the catch block spreads each day of MOCK_TRIP into  *)
(* a new day, and a spread copies the references of mainActivities and     *)
(* alternatives, not the arrays.                                           *)

Lists == {"mainActivities", "alternatives"}

\* the array that day i of the Trip returned by call c refers to as f
ListObject(c, i, f) ==
    IF calls[c].logged # << >> THEN <<"MOCK_TRIP", i, f>>
    ELSE <<"call", c, i, f>>

\* list.pop()
Pop(list) == Arr(SubSeq(list.v, 1, Len(list.v) - 1))

\* the holder of the Trip call c returned removes the last activity of list
\* f of its day i: trip.days[i][f].pop(). Every day that refers to the
\* array sees the change.
CallerEdits(c, i, f) ==
    /\ c \in 1..Len(calls)
    /\ calls[c].pc = "resolved"
    /\ i \in 1..Len(calls[c].result.days)
    /\ calls[c].result.days[i][f].t = "array"
    /\ Len(calls[c].result.days[i][f].v) > 0
    /\ LET edited == ListObject(c, i, f) IN
        /\ calls' = [d \in 1..Len(calls) |->
              [calls[d] EXCEPT !.result.days =
                 [j \in 1..Len(@) |->
                    [g \in DOMAIN @[j] |->
                       IF g \in Lists /\ ListObject(d, j, g) = edited
                       THEN Pop(@[j][g]) ELSE @[j][g]]]]]
        /\ MOCK_TRIP' = [MOCK_TRIP EXCEPT !.days =
              [j \in 1..Len(@) |->
                 [g \in DOMAIN @[j] |->
                    IF g \in Lists /\ <<"MOCK_TRIP", j, g>> = edited
                    THEN Pop(@[j][g]) ELSE @[j][g]]]]
    /\ UNCHANGED now
    /\ UNCHANGED app

\* the answers of a session whose caller edits what it holds: a failure,
\* and an itinerary of one day with both lists filled
EditAnswers ==
    {Rejects,
     Resolves(JsonText(TripObj(Undef, Undef,
        Arr(<<DayObj(Str("custom-1"), Str("Fado."),
                     FullLists[1], FullLists[2])>>))))}

\* a session whose caller edits the Trips it was given
NextCallerEdits ==
    \/ \E prefs \in SessionPreferences :
          GenerateTrip(prefs, MaxCalls) /\ UNCHANGED app
    \/ \E c \in 1..MaxCalls : RequestSettles(c, EditAnswers) /\ UNCHANGED app
    \/ \E c \in 1..MaxCalls : TimerFires(c) /\ UNCHANGED app
    \/ \E d \in TickSteps : Tick(d) /\ UNCHANGED app
    \/ \E c \in 1..MaxCalls, i \in 1..Len(MockTripLiteral.days), f \in Lists :
          CallerEdits(c, i, f)

SpecCallerEdits == Init /\ [][NextCallerEdits]_vars

-----------------------------------------------------------------------------
(* Vocabulary of the properties.                                           *)

CallIds == 1..Len(calls)
Resolved(c) == calls[c].pc = "resolved"
\* the call went through the catch block
TookFallback(c) == calls[c].logged # << >>
\* the call returned from the try block
Succeeded(c) == Resolved(c) /\ ~TookFallback(c)
\* the value JSON.parse gave the call that succeeded
DataOf(c) == calls[c].outcome.text.v

IsSequence(x) == x.t = "array"
NonEmptyString(x) == x.t = "string" /\ x.v # ""
AbsentOrEmpty(x) == x.t = "undefined" \/ (x.t = "string" /\ x.v = "")

DayIdsOf(tr) == {tr.days[i].id : i \in 1..Len(tr.days)}
\* the days of a Trip with their ids blanked
Content(tr) == [i \in 1..Len(tr.days) |-> [tr.days[i] EXCEPT !.id = Undef]]
WithoutDayIds(tr) == [tr EXCEPT !.days = Content(tr)]

\* the request rejected, or it carried no text, or text that does not parse
FailedBeforeValidation(o) ==
    \/ o.kind = "reject"
    \/ o.kind = "resolve" /\ o.text.t \in {"undefined", "string"}

\* the response parsed to an object whose days is missing or empty
ParsedWithoutDays(o) ==
    /\ o.kind = "resolve"
    /\ o.text.t = "json"
    /\ o.text.v.t = "object"
    /\ \/ o.text.v.v.days.t \in {"undefined", "null"}
       \/ o.text.v.v.days = Arr(<< >>)

\* the response o with the top-level id replaced
WithTopLevelId(o, id) == [o EXCEPT !.text.v.v.id = id]

\* the preferences that differ from p in the fields never read, if at all
SameConsumed(p) ==
    {q \in UserPreferences :
        q.vibes = p.vibes /\ q.energy = p.energy
            /\ q.destination = p.destination}

\* the two-day Kyoto placeholder as the caller of prefs is to see it
Placeholder(prefs) ==
    [MockTripLiteral EXCEPT
        !.destination = IF prefs.destination # "" THEN Str(prefs.destination)
                        ELSE Str("Kyoto, Japan")]

-----------------------------------------------------------------------------
(* C1. Total success: whatever the outbound request does, the call never   *)
(* rejects, and every day of the Trip it resolves with has a mainActivities *)
(* sequence and an alternatives sequence. The code keeps a list of the     *)
(* response that is no sequence (day.mainActivities || [] keeps "soon").    *)
TotalSuccess ==
    \A c \in CallIds :
        /\ calls[c].pc \in {"awaitResponse", "awaitDelay", "resolved"}
        /\ Resolved(c) =>
             \A i \in 1..Len(calls[c].result.days) :
                /\ IsSequence(calls[c].result.days[i].mainActivities)
                /\ IsSequence(calls[c].result.days[i].alternatives)

(* C2. Failure collapse: a request that rejects, resolves without text or  *)
(* resolves with text that does not parse ends in the fallback Trip, which *)
(* apart from its day ids depends on the preferences only, not on the kind *)
(* of failure.                                                             *)
FailureCollapse ==
    \A c \in CallIds :
        (Resolved(c) /\ FailedBeforeValidation(calls[c].outcome)) =>
            /\ TookFallback(c)
            /\ WithoutDayIds(calls[c].result)
                 = WithoutDayIds(Placeholder(calls[c].prefs))

FailureCollapseWitness ==
    \E c \in CallIds :
        /\ Resolved(c)
        /\ calls[c].outcome = Resolves(Str("<html>"))
        /\ calls[c].prefs.destination = "Lisbon, Portugal"
        /\ calls[c].result.destination = Str("Lisbon, Portugal")

(* C3. Empty-days rejection: a response that parses but has no days, or an *)
(* empty days, ends in the fallback Trip like a transport failure, and no  *)
(* call ever resolves with a Trip of zero days.                            *)
EmptyDaysRejected ==
    \A c \in CallIds :
        Resolved(c) =>
            /\ Len(calls[c].result.days) > 0
            /\ ParsedWithoutDays(calls[c].outcome) =>
                 /\ TookFallback(c)
                 /\ calls[c].result.id = Str("mock-trip-1")
                 /\ Content(calls[c].result) = Content(MockTripLiteral)

EmptyDaysRejectedWitness ==
    \E c \in CallIds :
        /\ Resolved(c)
        /\ calls[c].outcome.text.t = "json"
        /\ DataOf(c).t = "object"
        /\ DataOf(c).v.days = Arr(<< >>)
        /\ Len(calls[c].result.days) = 2

(* C4. Destination chain of the success path: the destination of the       *)
(* response when that is non-empty, else the destination of the            *)
(* preferences when that is non-empty, else "Unknown Destination".         *)
DestinationChain ==
    \A c \in CallIds :
        Succeeded(c) =>
            calls[c].result.destination =
                IF NonEmptyString(Get(DataOf(c), "destination"))
                THEN Get(DataOf(c), "destination")
                ELSE IF calls[c].prefs.destination # ""
                THEN Str(calls[c].prefs.destination)
                ELSE Str("Unknown Destination")

DestinationChainWitness ==
    \E c \in CallIds :
        /\ Succeeded(c)
        /\ Get(DataOf(c), "destination") = Undef
        /\ calls[c].prefs.destination = "Lisbon, Portugal"
        /\ calls[c].result.destination = Str("Lisbon, Portugal")

(* C5. Day ids of the success path: a day of the response with a non-empty *)
(* id keeps exactly that id; a day whose id is absent or empty gets the id *)
(* day-<position>-<clock>, the position counted from 0 and the clock the   *)
(* one the Trip id was taken from.                                         *)
DayIdHandling ==
    \A c \in CallIds :
        Succeeded(c) =>
            /\ Len(calls[c].result.days) = Len(Get(DataOf(c), "days").v)
            /\ \A i \in 1..Len(calls[c].result.days) :
                LET given == Get(Get(DataOf(c), "days").v[i], "id")
                    got == calls[c].result.days[i].id
                IN  /\ NonEmptyString(given) => got = given
                    /\ AbsentOrEmpty(given) =>
                         got = Str("day-" \o ToString(i - 1) \o "-"
                                   \o calls[c].result.id.v)

DayIdHandlingWitness ==
    \E c \in CallIds :
        /\ Succeeded(c)
        /\ Len(calls[c].result.days) = 2
        /\ Get(Get(DataOf(c), "days").v[1], "id") = Str("custom-1")
        /\ calls[c].result.days[1].id = Str("custom-1")
        /\ Get(Get(DataOf(c), "days").v[2], "id") = Undef
        /\ calls[c].result.days[2].id = Str("day-1-1000")

(* C6. Fallback content is deterministic: every call that fell back       *)
(* resolved with the two-day Kyoto placeholder, its destination the one of *)
(* the preferences when that is non-empty and "Kyoto, Japan" otherwise;    *)
(* any two such results agree on everything but the day ids, and the       *)
(* placeholder the calls start from is never altered.                      *)
FallbackContentDeterministic ==
    /\ MOCK_TRIP = MockTripLiteral
    /\ \A c \in CallIds :
        (Resolved(c) /\ TookFallback(c)) =>
            /\ calls[c].result.destination =
                 IF calls[c].prefs.destination # ""
                 THEN Str(calls[c].prefs.destination)
                 ELSE Str("Kyoto, Japan")
            /\ Len(calls[c].result.days) = 2
            /\ Content(calls[c].result) = Content(MockTripLiteral)
            /\ \A d \in CallIds :
                 (Resolved(d) /\ TookFallback(d)) =>
                    Content(calls[d].result) = Content(calls[c].result)

FallbackContentDeterministicWitness ==
    \E c, d \in CallIds :
        /\ c \in calls[d].after
        /\ Resolved(d)
        /\ TookFallback(c) /\ TookFallback(d)
        /\ calls[c].prefs.destination = "Lisbon, Portugal"
        /\ calls[d].prefs.destination = ""
        /\ calls[d].result.destination = Str("Kyoto, Japan")

(* C7. Id freshness on consecutive fallbacks: when a call that fell back   *)
(* was started after an earlier call with the same preferences had         *)
(* resolved with its fallback, no day id of the one result is a day id of  *)
(* the other.                                                              *)
ConsecutiveFallbackIdsFresh ==
    \A c, d \in CallIds :
        ( /\ c \in calls[d].after
          /\ Resolved(d)
          /\ TookFallback(c) /\ TookFallback(d)
          /\ calls[c].prefs = calls[d].prefs ) =>
            DayIdsOf(calls[c].result) \cap DayIdsOf(calls[d].result) = {}

ConsecutiveFallbackIdsFreshWitness ==
    \E c, d \in CallIds :
        /\ c \in calls[d].after
        /\ Resolved(d)
        /\ TookFallback(c) /\ TookFallback(d)
        /\ calls[c].prefs = calls[d].prefs
        /\ calls[c].result.days[1].id = Str("fallback-day-0-1000")
        /\ calls[d].result.days[1].id = Str("fallback-day-0-2000")

(* C8. Fallback ids never collide: the day ids of any two calls that fell  *)
(* back, overlapping calls included, are pairwise distinct. Two timers     *)
(* that fire in the same millisecond give both results the same ids.       *)
FallbackIdsNeverCollide ==
    \A c, d \in CallIds :
        ( /\ c # d
          /\ Resolved(c) /\ Resolved(d)
          /\ TookFallback(c) /\ TookFallback(d) ) =>
            DayIdsOf(calls[c].result) \cap DayIdsOf(calls[d].result) = {}

(* C9. Id uniqueness within one result: the Trip id and the day ids of a   *)
(* returned Trip are pairwise distinct, whatever ids the days of the       *)
(* response carry. The code keeps the ids of the response as they are, so  *)
(* two days that carry the same id keep it.                                *)
IdsUniqueWithinResult ==
    \A c \in CallIds :
        Resolved(c) =>
            LET tr == calls[c].result
            IN  /\ \A i \in 1..Len(tr.days) : tr.days[i].id # tr.id
                /\ \A i, j \in 1..Len(tr.days) :
                      i # j => tr.days[i].id # tr.days[j].id

(* C10. Trip.id is unique per generation: two Trips returned in one        *)
(* session never carry the same id. Every fallback Trip carries the id of  *)
(* the placeholder, and two successes of one millisecond the same clock.   *)
TripIdsUnique ==
    \A c, d \in CallIds :
        (c # d /\ Resolved(c) /\ Resolved(d)) =>
            calls[c].result.id # calls[d].result.id

(* C11. The top-level id of the response is never trusted: the Trip a call *)
(* returns from the try block carries the clock of that step as its id,    *)
(* and it is the Trip the same step returns for the same response with any *)
(* other top-level id, or with none.                                       *)
TopLevelIdNotTrusted ==
    [][\A c \in CallIds :
        (calls[c].pc = "awaitResponse" /\ calls'[c].pc = "resolved") =>
            /\ calls'[c].result.id = Str(ToString(now))
            /\ \A id \in ResponseIds :
                 HandleResponse(WithTopLevelId(calls'[c].outcome, id),
                                calls[c].prefs, now)
                    = Returned(calls'[c].result)]_vars

TopLevelIdNotTrustedWitness ==
    \E c \in CallIds :
        /\ Succeeded(c)
        /\ Get(DataOf(c), "id") = Str("ext-1")
        /\ calls[c].result.id = Str("1")

(* C12. Sanitization is a frame on the days: a Trip returned from the try  *)
(* block has the days of the response, as many and in the same order, and  *)
(* every day keeps its date, its vibeLabel, its summary, a non-empty id    *)
(* and each activity list the response gave it, with its activities.       *)
DaysFramed ==
    \A c \in CallIds :
        Succeeded(c) =>
            LET given == Get(DataOf(c), "days").v
                got == calls[c].result.days
            IN  /\ Len(got) = Len(given)
                /\ \A i \in 1..Len(given) :
                    /\ got[i].date = Get(given[i], "date")
                    /\ got[i].vibeLabel = Get(given[i], "vibeLabel")
                    /\ got[i].summary = Get(given[i], "summary")
                    /\ NonEmptyString(Get(given[i], "id")) =>
                         got[i].id = Get(given[i], "id")
                    /\ \A f \in {"mainActivities", "alternatives"} :
                         IsSequence(Get(given[i], f)) =>
                            got[i][f] = Get(given[i], f)

DaysFramedWitness ==
    \E c \in CallIds :
        /\ Succeeded(c)
        /\ Len(Get(DataOf(c), "days").v) = MaxDays
        /\ Len(calls[c].result.days) = MaxDays
        /\ calls[c].result.days[1].summary = Str("Fado.")
        /\ calls[c].result.days[1].mainActivities = Arr(<<SampleMain>>)
        /\ calls[c].result.days[2].summary = Str("Miradouros.")
        /\ calls[c].result.days[2].alternatives = Arr(<< >>)

(* C13. Every Trip a call resolves with, from the try block or from the    *)
(* catch block, has a destination that is a non-empty string, whether the  *)
(* response names a destination, an empty one or none and whether the      *)
(* preferences name one or not.                                            *)
DestinationNonEmpty ==
    \A c \in CallIds :
        Resolved(c) => NonEmptyString(calls[c].result.destination)

DestinationNonEmptyWitness ==
    \E c \in CallIds :
        /\ Succeeded(c)
        /\ Get(DataOf(c), "destination") = Str("")
        /\ calls[c].prefs.destination = ""
        /\ calls[c].result.destination = Str("Unknown Destination")

(* C14. Each call produces an independent Trip: when the holder of one    *)
(* returned Trip changes a part of it, no other returned Trip changes and  *)
(* the placeholder later fallbacks are built from does not change. The     *)
(* fallback Trips refer to the activity lists of MOCK_TRIP itself.         *)
TripsIndependent ==
    [][\A c \in CallIds :
        (Resolved(c) /\ calls'[c].result # calls[c].result) =>
            /\ MOCK_TRIP' = MOCK_TRIP
            /\ \A d \in CallIds \ {c} :
                 calls'[d].result = calls[d].result]_vars

(* C15. The toggles, the character answers and the subscription tier are   *)
(* not consumed: the request a call issues, the Trip it returns from the   *)
(* try block and the Trip it returns from the catch block are the ones it  *)
(* would issue and return, for the same outcome at the same clock value,   *)
(* for any preferences with the same vibes, energy and destination.        *)
OtherFieldsNotConsumed ==
    [][\A c \in 1..Len(calls') :
        \A q \in SameConsumed(calls'[c].prefs) :
            /\ calls'[c].sent = <<Request(q)>>
            /\ ( /\ c \in CallIds
                 /\ calls[c].pc = "awaitResponse"
                 /\ calls'[c].pc # "awaitResponse" ) =>
                    LET r == HandleResponse(calls'[c].outcome, q, now)
                    IN  IF r.threw THEN calls'[c].pc = "awaitDelay"
                        ELSE calls'[c].result = r.trip
            /\ ( /\ c \in CallIds
                 /\ calls[c].pc = "awaitDelay"
                 /\ calls'[c].pc = "resolved" ) =>
                    calls'[c].result = FallbackTrip(q, MOCK_TRIP, now)]_vars

OtherFieldsNotConsumedWitness ==
    \E c \in CallIds :
        /\ Succeeded(c)
        /\ calls[c].prefs.subscription = "PRO"
        /\ calls[c].prefs.destination = "Lisbon, Portugal"
        /\ \E q \in SameConsumed(calls[c].prefs) : q.toggles.dayOnly

(* C16. No retry: a call has issued exactly one request, while it waits,   *)
(* after a failure and after it resolved; it has written one log entry     *)
(* when its request failed and none otherwise; a failure ends in the       *)
(* fallback Trip; and the placeholder is left as it was.                   *)
NoRetry ==
    /\ MOCK_TRIP = MockTripLiteral
    /\ \A c \in CallIds :
        /\ calls[c].sent = <<Request(calls[c].prefs)>>
        /\ Len(calls[c].logged) =
             IF /\ calls[c].outcome # NoOutcome
                /\ HandleResponse(calls[c].outcome, calls[c].prefs, now).threw
             THEN 1 ELSE 0
        /\ (Resolved(c) /\ TookFallback(c)) =>
             Content(calls[c].result) = Content(MockTripLiteral)

NoRetryWitness ==
    \E c \in CallIds :
        /\ Resolved(c)
        /\ calls[c].outcome = Rejects
        /\ Len(calls[c].sent) = 1
        /\ Len(calls[c].logged) = 1
        /\ calls[c].result.id = Str("mock-trip-1")

(* C17. Concurrent calls of the handler: a call goes its way whatever the  *)
(* other calls do; every step that resolves a call stores the Trip of that *)
(* call and shows PRESENTING, and no other step changes the Trip held: the *)
(* Trip held is the one of the call that resolved last, also when that is  *)
(* not the call made last.                                                 *)
LastResolvedWins ==
    [][ /\ \A c \in CallIds :
            /\ (~Resolved(c) /\ calls'[c].pc = "resolved") =>
                 /\ trip' = Obj(calls'[c].result)
                 /\ screen' = "PRESENTING"
            /\ calls'[c] # calls[c] =>
                 \A d \in CallIds \ {c} : calls'[d] = calls[d]
        /\ (\A c \in CallIds : calls'[c].pc = "resolved" => Resolved(c)) =>
             trip' = trip ]_vars

LastResolvedWinsWitness ==
    /\ Len(calls) = 2
    /\ calls[2].after = {}
    /\ Succeeded(2)
    /\ calls[2].result.id = Str("0")
    /\ Resolved(1) /\ TookFallback(1)
    /\ calls[1].result.days[1].id = Str("fallback-day-0-1000")
    /\ trip = Obj(calls[1].result)
    /\ trip # Obj(calls[2].result)
    /\ screen = "PRESENTING"

(* C18. Single in-flight request in the App: whatever the user does and    *)
(* whichever timers fire from the splash screen on, at most one call of    *)
(* generateTrip is pending, and a call is made only while none is.         *)
SingleInFlight ==
    [][ /\ Cardinality({c \in 1..Len(calls') : calls'[c].pc # "resolved"}) <= 1
        /\ Len(calls') > Len(calls) => \A c \in CallIds : Resolved(c) ]_vars

SingleInFlightWitness ==
    /\ screen = "GENERATING"
    /\ Len(calls) = 1
    /\ calls[1].pc = "awaitDelay"
    /\ Len(timers) > 0

(* C19. Re-plan replaces the whole Trip: "Update Plan" of the mood dialog, *)
(* "I feel different (Re-plan)" of the day screen and the refresh control  *)
(* of the home card each call generateTrip again. In the code the first    *)
(* closes the dialog, the second opens it and the third opens the day.     *)
RePlanCallsGenerator ==
    [][(ClickUpdatePlan \/ ClickRePlan \/ ClickRefresh) =>
            /\ Len(calls') = Len(calls) + 1
            /\ screen' = "GENERATING"]_vars

(* C20. Vibe selection: the vibes selected are at most 3 and no vibe is    *)
(* selected twice; a toggle of a selected vibe takes it out and keeps the  *)
(* others in their order, a toggle of a vibe not selected puts it last     *)
(* when fewer than 3 are selected and changes nothing otherwise.           *)
VibeSelectionBound ==
    [][ /\ Len(preferences'.vibes) <= 3
        /\ \A i, j \in 1..Len(preferences'.vibes) :
              i # j => preferences'.vibes[i] # preferences'.vibes[j]
        /\ \A vibe \in Vibes :
              ToggleVibe(vibe) =>
                LET before == preferences.vibes
                    after == preferences'.vibes
                IN  /\ Includes(before, vibe) =>
                         /\ ~Includes(after, vibe)
                         /\ Len(after) = Len(before) - 1
                         /\ \A k \in 1..Len(after) :
                               after[k] =
                                 IF \E m \in 1..k : before[m] = vibe
                                 THEN before[k + 1] ELSE before[k]
                    /\ (~Includes(before, vibe) /\ Len(before) < 3) =>
                         after = before \o <<vibe>>
                    /\ (~Includes(before, vibe) /\ Len(before) >= 3) =>
                         after = before ]_vars

VibeSelectionBoundWitness ==
    /\ screen = "ONBOARDING"
    /\ step = 0
    /\ preferences.vibes = <<"Social", "Adventure", "Calm">>

(* C21. Termination: when every request settles in the end and every      *)
(* fallback timer fires in the end, every call resolves in the end; and a  *)
(* call that waits for its response goes on by the settling of its request *)
(* alone, never by the passing of time.                                    *)
Termination ==
    /\ \A c \in 1..MaxCalls :
          (Len(calls) >= c) ~> (Len(calls) >= c /\ calls[c].pc = "resolved")
    /\ [][\A c \in CallIds :
            (calls[c].pc = "awaitResponse" /\ calls'[c] # calls[c]) =>
                (calls'[c].outcome # NoOutcome /\ now' = now)]_vars

TerminationWitness ==
    /\ Len(calls) = MaxCalls
    /\ \A c \in CallIds : Resolved(c)
    /\ \E c \in CallIds : TookFallback(c) /\ calls[c].outcome = Rejects
    /\ \E c \in CallIds : Succeeded(c)

(* C22. Pacing of the fallback: a request that fails makes the call write  *)
(* its log entry and start one delay of 1000 ms in that step, with no Trip *)
(* returned yet; the delay is never started again; the fallback Trip is    *)
(* returned by the firing of the timer, not before the delay is over, with *)
(* day ids built from the clock of that moment. A call that succeeds       *)
(* returns in the step its response arrives, without any delay.            *)
FallbackPacing ==
    [][\A c \in CallIds :
        /\ (calls[c].pc = "awaitResponse" /\ calls'[c].pc = "awaitDelay") =>
             /\ Len(calls'[c].logged) = 1
             /\ calls'[c].deadline = now + FallbackDelayMs
             /\ calls'[c].result = NoTrip
        /\ (calls[c].pc = "awaitDelay" /\ calls'[c] # calls[c]) =>
             /\ calls'[c].pc = "resolved"
             /\ calls'[c].deadline = calls[c].deadline
             /\ calls'[c].logged = calls[c].logged
             /\ now >= calls[c].deadline
             /\ \A i \in 1..Len(calls'[c].result.days) :
                   calls'[c].result.days[i].id =
                      Str("fallback-day-" \o ToString(i - 1) \o "-"
                          \o ToString(now))
        /\ (calls[c].pc = "awaitResponse" /\ calls'[c].pc = "resolved") =>
             /\ calls'[c].logged = << >>
             /\ calls'[c].deadline = 0
             /\ now' = now
        /\ calls[c].pc = "resolved" => calls'[c] = calls[c] ]_vars

FallbackPacingWitness ==
    \E c \in CallIds :
        /\ Resolved(c)
        /\ TookFallback(c)
        /\ calls[c].deadline = 1000
        /\ calls[c].result.days[2].id = Str("fallback-day-1-1001")

(* C23. Loading state and routing: a call is pending exactly while the     *)
(* screen is GENERATING; on that screen no step changes what the user can  *)
(* set, and the screen is left only by the step that resolves the call,    *)
(* which stores the Trip returned as it is and shows PRESENTING; and       *)
(* PRESENTING is entered from GENERATING only.                             *)
LoadingRouting ==
    /\ []((\E c \in CallIds : ~Resolved(c)) <=> screen = "GENERATING")
    /\ [][ /\ screen = "GENERATING" =>
                /\ UNCHANGED <<preferences, selectedDayId, showMoodModal,
                               step, processing>>
                /\ IF \E c \in CallIds :
                         ~Resolved(c) /\ calls'[c].pc = "resolved"
                   THEN /\ screen' = "PRESENTING"
                        /\ \E c \in CallIds :
                              /\ ~Resolved(c) /\ calls'[c].pc = "resolved"
                              /\ trip' = Obj(calls'[c].result)
                   ELSE screen' = "GENERATING" /\ trip' = trip
           /\ (screen # "PRESENTING" /\ screen' = "PRESENTING") =>
                screen = "GENERATING" ]_vars

LoadingRoutingWitness ==
    /\ screen = "PRESENTING"
    /\ Len(calls) = 1
    /\ Succeeded(1)
    /\ trip = Obj(calls[1].result)
    /\ step = 3

(* C24. No error indicator: whenever the screen is PRESENTING the Trip     *)
(* held is not null and has at least one day, whether the generation       *)
(* succeeded or fell back, so the view "Trip Generation Failed" with its   *)
(* "Try Again" is never the one shown.                                     *)
NoErrorIndicator ==
    screen = "PRESENTING" =>
        /\ trip # Null
        /\ Len(trip.v.days) >= 1
        /\ ~ENABLED ClickTryAgain

NoErrorIndicatorWitness ==
    /\ screen = "PRESENTING"
    /\ Len(calls) = 1
    /\ TookFallback(1)
    /\ ParsedWithoutDays(calls[1].outcome)
    /\ trip = Obj(calls[1].result)

(* C25. Generation gated by the onboarding: the step of the onboarding     *)
(* goes 0, 1, 2, 3, one at a time and never back, also when an answer is   *)
(* clicked again before its 150 ms timer fires; step 0 is left only with a *)
(* vibe selected and a destination typed; generateTrip is called from step *)
(* 3 of the onboarding only; so every call the App makes carries 1 to 3    *)
(* vibes and a destination that is not empty.                              *)
OnboardingGate ==
    /\ [][ /\ step' = step \/ step' = step + 1
           /\ step \in 0..3
           /\ (step = 0 /\ step' # 0) =>
                /\ Len(preferences.vibes) > 0
                /\ preferences.destination # ""
           /\ Len(calls') > Len(calls) =>
                screen = "ONBOARDING" /\ step = 3 ]_vars
    /\ [](\A c \in CallIds :
            /\ Len(calls[c].prefs.vibes) \in 1..3
            /\ calls[c].prefs.destination # "")

OnboardingGateWitness ==
    /\ Len(calls) = 1
    /\ Len(calls[1].prefs.vibes) = 3
    /\ calls[1].prefs.character.morning # ""
    /\ calls[1].prefs.character.navigation # ""
    /\ Len(timers) = 1
    /\ timers[1].arg = 2
    /\ step = 3

(* C26. A Trip exists on every screen after the onboarding: on HOME,       *)
(* DAY_DETAIL, MAP, INSIGHTS, PROFILE, QUIZ and PRICING the Trip held is   *)
(* not null and has at least one day, so "No Trip Planned" is never the    *)
(* view shown; and from HOME on, ONBOARDING and GENERATING are not entered *)
(* again and the Trip held does not change.                                *)
TripAfterOnboarding ==
    /\ []((screen \in {"HOME", "DAY_DETAIL", "MAP", "INSIGHTS", "PROFILE",
                       "QUIZ", "PRICING"}) =>
            /\ trip # Null
            /\ Len(trip.v.days) >= 1
            /\ ~ENABLED ClickPlanTrip)
    /\ [][ (screen \in {"HOME", "DAY_DETAIL", "MAP", "INSIGHTS", "PROFILE",
                        "QUIZ", "PRICING"}) =>
             ( /\ screen' \in {"HOME", "DAY_DETAIL", "MAP", "INSIGHTS",
                               "PROFILE", "QUIZ", "PRICING"}
               /\ trip' = trip
               /\ calls' = calls ) ]_vars

TripAfterOnboardingWitness ==
    /\ screen = "HOME"
    /\ preferences.subscription = "PRO"
    /\ Len(calls) = 1
    /\ trip = Obj(calls[1].result)
    /\ Succeeded(1)

(* C27. Day selection: a click on the card of today or on a row of the     *)
(* days after opens DAY_DETAIL showing that very day of the Trip held,     *)
(* for every Trip generateTrip can return, and never "Day Not Found". The  *)
(* code looks the day up by its id and takes the first day that carries    *)
(* it, and two days of a response may carry the same id.                   *)
SelectedDayShown ==
    [][\A i \in 1..MaxDays :
          SelectDay(i) =>
            /\ screen' = "DAY_DETAIL"
            /\ DayShown' # {}
            /\ \A k \in DayShown' : trip'.v.days[k] = trip.v.days[i]]_vars

(* C28. One mocked payment at a time: while a purchase or a restore is     *)
(* processing no purchase and no restore is started, so at most one        *)
(* payment is pending at any time. In the code "Restore Purchases" is not  *)
(* disabled while processing, and a pricing screen opened again starts     *)
(* with processing false while the timer of the former one is pending.     *)
OnePaymentAtATime ==
    [][ /\ (processing /\ screen = "PRICING") =>
             ~(ClickRestore \/ \E tier \in Tiers : ClickBuy(tier))
        /\ Cardinality({k \in 1..Len(timers') :
                           timers'[k].owner = "PRICING"}) <= 1 ]_vars

(* C29. The subscription changes only by a payment that completes: it is   *)
(* FREE at the start; a purchase sets a timer for its tier and a restore   *)
(* one for PLUS; a step changes the subscription only by firing such a     *)
(* timer, and every such timer leaves the queue only by firing, also when  *)
(* the pricing screen was left meanwhile; the firing sets the subscription *)
(* to the tier of the timer, sets a success toast and shows HOME, and      *)
(* leaves the other preferences and the Trip held as they are.             *)
SubscriptionByPayment ==
    /\ preferences.subscription = "FREE"
    /\ [][ /\ \A tier \in Tiers :
                ClickBuy(tier) => timers' = Append(timers,
                    [due |-> now + 1500, owner |-> "PRICING", arg |-> tier,
                     live |-> TRUE])
           /\ ClickRestore => timers' = Append(timers,
                    [due |-> now + 1500, owner |-> "PRICING", arg |-> "PLUS",
                     live |-> TRUE])
           /\ ( \/ preferences'.subscription # preferences.subscription
                \/ Cardinality({k \in 1..Len(timers') :
                                   timers'[k].owner = "PRICING"})
                     < Cardinality({k \in 1..Len(timers) :
                                      timers[k].owner = "PRICING"}) ) =>
                \E k \in 1..Len(timers) :
                    /\ timers[k].owner = "PRICING"
                    /\ timers[k].due <= now
                    /\ timers' = Remove(timers, k)
                    /\ preferences' =
                         [preferences EXCEPT !.subscription = timers[k].arg]
                    /\ toast'.v.type = "success"
                    /\ screen' = "HOME"
                    /\ trip' = trip ]_vars

SubscriptionByPaymentWitness ==
    /\ preferences.subscription = "PRO"
    /\ preferences.vibes = <<"Calm">>
    /\ toast = Obj([message |-> "Welcome to LUNO+ PRO", type |-> "success"])
    /\ screen = "HOME"
    /\ timers = << >>
    /\ processing

(* C30. Quiz result: the quiz is finished exactly when three answers are   *)
(* recorded, one per question in the order of the questions; the archetype *)
(* handed to the App is the one whose option index was picked most often,  *)
(* the lowest index on a tie, so one the user picked at least once;        *)
(* "Retake Analysis" sets the question index to 0 and empties the answers, *)
(* and the result stored stays until the quiz is finished again.           *)
QuizResult ==
    /\ [](/\ finished <=> Len(answers) = 3
          /\ Len(answers) <= 3
          /\ currentQ = IF finished THEN 2 ELSE Len(answers)
          /\ finished =>
               \E m \in 0..3 :
                  LET picked(i) ==
                        Cardinality({k \in 1..3 : answers[k] = i})
                  IN  /\ quizResultId
                           = Str(<<"zen", "adrenaline", "local", "deep">>[m + 1])
                      /\ picked(m) >= 1
                      /\ \A j \in 0..3 : picked(j) <= picked(m)
                      /\ \A j \in 0..(m - 1) : picked(j) < picked(m))
    /\ [][ /\ ClickRetake =>
                /\ currentQ' = 0
                /\ answers' = << >>
                /\ ~finished'
                /\ quizResultId' = quizResultId
           /\ quizResultId' # quizResultId => (~finished /\ finished')
           /\ \A index \in 0..3 :
                HandleAnswer(index) => answers' = answers \o <<index>> ]_vars

QuizResultWitness ==
    /\ screen = "QUIZ"
    /\ finished
    /\ answers = <<3, 1, 2>>
    /\ quizResultId = Str("adrenaline")

====
